---- MODULE Spec2Model ----
(***************************************************************************)
(* State-machine model of the food-order tool server:                      *)
(*   src/server.py                  session store and the two tools        *)
(*   src/tools/order_management.py  the cart engine                        *)
(*   src/utils.py                   the tenant-context cache               *)
(* Python strings that the code converts (lower(), str()) are modelled as  *)
(* sequences of one-character strings so that the conversions are          *)
(* computed.  A dict is a function whose DOMAIN is its key set.            *)
(***************************************************************************)
EXTENDS Integers, Sequences, FiniteSets, TLC

VARIABLES
    SESSIONS,                \* server.py SESSIONS: session_id -> session record
    TENANT_CONTEXTS_CACHE,   \* utils.py _TENANT_CONTEXTS_CACHE
    call,                    \* inputs of the last tool call
    pre,                     \* the session record the last call started from
    trace,                   \* locals of the last call at its return
    ret,                     \* return value of the last tool call
    prev_clear,              \* outcome of the call before the last, if a clear
    conc                     \* two requests of one session run statement by statement

vars == <<SESSIONS, TENANT_CONTEXTS_CACHE, call, pre, trace, ret, prev_clear, conc>>

----------------------------------------------------------------------------
(* Bounds of the model *)

MaxItems == 2        \* longest item list the classifier returns
MaxQty == 2          \* largest quantity the classifier returns
MaxNegQty == 1       \* the classifier's quantities start at -MaxNegQty
MaxCartQty == 2      \* calls that would store more than this are not explored
MaxFetchCalls == 2   \* calls of fetch_all_tenant_contexts made by one thread
MaxNotesLen == 8     \* calls that would store longer notes are not explored

----------------------------------------------------------------------------
(* Strings *)

UPPER == <<"A","B","C","D","E","F","G","H","I","J","K","L","M",
           "N","O","P","Q","R","S","T","U","V","W","X","Y","Z">>
LOWER == <<"a","b","c","d","e","f","g","h","i","j","k","l","m",
           "n","o","p","q","r","s","t","u","v","w","x","y","z">>
DIGITS == <<"0","1","2","3","4","5","6","7","8","9">>

\* upper-case letter -> lower-case letter
LowerMap ==
    [c \in {UPPER[i] : i \in 1..Len(UPPER)} |->
        LOWER[CHOOSE i \in 1..Len(UPPER) : UPPER[i] = c]]

\* str.lower() on one character
LowerChar(c) == IF c \in DOMAIN LowerMap THEN LowerMap[c] ELSE c

\* str.lower()
Lower(s) == [i \in 1..Len(s) |-> LowerChar(s[i])]

\* str() of a non-negative integer
RECURSIVE Str(_)
Str(n) ==
    IF n < 10 THEN <<DIGITS[n + 1]>>
    ELSE Str(n \div 10) \o <<DIGITS[(n % 10) + 1]>>

----------------------------------------------------------------------------
(* Dicts *)

EmptyDict == <<>>

DictGet(d, k, default) == IF k \in DOMAIN d THEN d[k] ELSE default

DictSet(d, k, v) == [x \in (DOMAIN d) \cup {k} |-> IF x = k THEN v ELSE d[x]]

DictDel(d, k) == [x \in (DOMAIN d) \ {k} |-> d[x]]

----------------------------------------------------------------------------
(* The tenant store *)

\* The documents of the TENANT_INFO collection as fetch_all_tenant_contexts
\* maps them: tenant "acme" has two menu items, the first named by "name",
\* the second by "item_name"; tenant "void" has an empty menu.
MongoTenantContexts ==
    [t \in {"acme", "void"} |->
        IF t = "acme"
        THEN [menu |-> << [name |-> <<"B","u","n">>, item_name |-> <<>>,
                           menu_id |-> 101, category |-> "Snacks"],
                          [name |-> <<>>, item_name |-> <<"T","e","a">>,
                           menu_id |-> 102, category |-> "Drinks"] >>]
        ELSE [menu |-> <<>>]]

NoCache == [is_none |-> TRUE, value |-> EmptyDict]

\* fetch_all_tenant_contexts(): the cached value if there is one; otherwise
\* the store is read: on success the result is cached and returned, on
\* failure (MONGO_URI unset, or the read raises) {} is returned and nothing
\* is cached.
fetch_all_tenant_contexts(cache, mongo_ok) ==
    IF ~cache.is_none THEN [value |-> cache.value, cache |-> cache]
    ELSE IF ~mongo_ok THEN [value |-> EmptyDict, cache |-> cache]
    ELSE [value |-> MongoTenantContexts,
          cache |-> [is_none |-> FALSE, value |-> MongoTenantContexts]]

\* tenant_contexts.get(tenant_key, {}).get("menu", [])
MenuData(tenant_contexts, tenant_key) ==
    IF tenant_key \in DOMAIN tenant_contexts
    THEN tenant_contexts[tenant_key].menu
    ELSE <<>>

----------------------------------------------------------------------------
(* Sessions *)

Phases == {"IDLE", "MENU_BROWSING", "ORDERING", "ORDER_PLACED"}

NewSession ==
    [phase |-> "IDLE", current_category |-> "", food_list |-> EmptyDict,
     food_customization_details |-> <<>>]

\* get_session that initialises the record on every reference
get_session_reinit(sessions, session_id) ==
    DictSet(sessions, session_id, NewSession)

\* get_session: SESSIONS after the lookup (the record is created if absent)
get_session(sessions, session_id) ==
    IF session_id \notin DOMAIN sessions
    THEN DictSet(sessions, session_id, NewSession)
    ELSE sessions

----------------------------------------------------------------------------
(* The cart engine *)

is_post_placement(config) == config.phase = "ORDER_PLACED"

\* m.get("name") or m.get("item_name", "")
ItemName(m) == IF m.name # <<>> THEN m.name ELSE m.item_name

\* name_to_id: lower-cased name -> str(menu_id); a later menu entry with
\* the same lower-cased name overrides an earlier one
RECURSIVE name_to_id(_)
name_to_id(menu_data) ==
    IF menu_data = <<>> THEN EmptyDict
    ELSE LET n == Len(menu_data)
             m == menu_data[n]
         IN DictSet(name_to_id(SubSeq(menu_data, 1, n - 1)),
                    Lower(ItemName(m)), Str(m.menu_id))

\* id_to_item: str(menu_id) -> menu entry (built, never read)
id_to_item(menu_data) ==
    [k \in {Str(menu_data[i].menu_id) : i \in 1..Len(menu_data)} |->
        menu_data[CHOOSE i \in 1..Len(menu_data) :
                     /\ Str(menu_data[i].menu_id) = k
                     /\ \A j \in (i+1)..Len(menu_data) :
                            Str(menu_data[j].menu_id) # k]]

NoId == <<>>

\* name = item.name.lower(); menu_id = name_to_id.get(name)
\* (n2i is the name_to_id dict of the call; NoId stands for None)
Resolve(n2i, item) == DictGet(n2i, Lower(item.name), NoId)

Max(a, b) == IF a >= b THEN a ELSE b

\* ApplyAdd with the quantity stored instead of added
ApplyAddOverwrite(st, menu_id, item) ==
    [st EXCEPT !.food_list = DictSet(@, menu_id, item.quantity),
               !.actually_added = Append(@, item)]

\* "add" branch of the loop body
ApplyAdd(st, menu_id, item) ==
    [st EXCEPT !.food_list =
                   DictSet(@, menu_id, DictGet(@, menu_id, 0) + item.quantity),
               !.actually_added = Append(@, item)]

\* ApplyRemove with the whole line deleted whatever the quantity
ApplyRemoveWholeLine(st, menu_id, item) ==
    IF menu_id \in DOMAIN st.food_list
    THEN [st EXCEPT !.food_list = DictDel(@, menu_id),
                    !.actually_removed = Append(@, item)]
    ELSE [st EXCEPT !.not_found_items = Append(@, item.name)]

\* "remove" branch of the loop body
ApplyRemove(st, menu_id, item) ==
    IF menu_id \in DOMAIN st.food_list
    THEN LET current_qty == st.food_list[menu_id]
             new_qty == Max(0, current_qty - item.quantity)
         IN [st EXCEPT !.food_list = IF new_qty = 0
                                     THEN DictDel(@, menu_id)
                                     ELSE DictSet(@, menu_id, new_qty),
                       !.actually_removed = Append(@, item)]
    ELSE [st EXCEPT !.not_found_items = Append(@, item.name)]

\* ApplyModify with the quantity added to the entry instead of set
ApplyModifyAdditive(st, menu_id, item) ==
    IF item.quantity = 0
    THEN IF menu_id \in DOMAIN st.food_list
         THEN [st EXCEPT !.food_list = DictDel(@, menu_id),
                         !.actually_removed = Append(@, item)]
         ELSE [st EXCEPT !.not_found_items = Append(@, item.name)]
    ELSE [st EXCEPT !.food_list =
                        DictSet(@, menu_id, DictGet(@, menu_id, 0) + item.quantity),
                    !.actually_modified = Append(@, item)]

\* "modify" branch of the loop body
ApplyModify(st, menu_id, item) ==
    IF item.quantity = 0
    THEN IF menu_id \in DOMAIN st.food_list
         THEN [st EXCEPT !.food_list = DictDel(@, menu_id),
                         !.actually_removed = Append(@, item)]
         ELSE [st EXCEPT !.not_found_items = Append(@, item.name)]
    ELSE [st EXCEPT !.food_list = DictSet(@, menu_id, item.quantity),
                    !.actually_modified = Append(@, item)]

\* one iteration of "for item in result.items"
ApplyItem(st, action, n2i, item) ==
    LET menu_id == Resolve(n2i, item)
    IN IF menu_id = NoId
       THEN [st EXCEPT !.not_found_items = Append(@, item.name)]
       ELSE CASE action = "add" -> ApplyAdd(st, menu_id, item)
              [] action = "remove" -> ApplyRemove(st, menu_id, item)
              [] action = "modify" -> ApplyModify(st, menu_id, item)
              [] OTHER -> st

\* the whole loop, items taken in order
RECURSIVE ApplyItems(_, _, _, _)
ApplyItems(st, action, n2i, items) ==
    IF items = <<>> THEN st
    ELSE ApplyItems(ApplyItem(st, action, n2i, Head(items)),
                    action, n2i, Tail(items))

\* Purge with the filter left out
PurgeNothing(food_list) == food_list

\* food_list = {k: v for k, v in food_list.items() if v > 0}
Purge(food_list) ==
    [k \in {x \in DOMAIN food_list : food_list[x] > 0} |-> food_list[k]]

\* Return values: the format string and what is interpolated into it
Msg(fmt, args) == [fmt |-> fmt, args |-> args]

FULL_CANCELLATION_CONFIRMED == Msg("FULL_CANCELLATION_CONFIRMED", <<>>)
OrderCleared == Msg("Order cleared! Ready to start fresh?", <<>>)

\* [f"{i.quantity}x {i.name}" for i in items]
QtyNames(items) == [i \in 1..Len(items) |-> <<items[i].quantity, "x ", items[i].name>>]

\* Respond without the post-placement branch
RespondNoSignal(action, post_placement, st) ==
    CASE action = "add" ->
            IF st.actually_added # <<>>
            THEN Msg("Added {} to your order!", QtyNames(st.actually_added))
            ELSE Msg("I couldn't find those items in our menu.", <<>>)
      [] action = "remove" ->
            IF st.actually_removed # <<>>
            THEN Msg("Removed {} from your order!", QtyNames(st.actually_removed))
            ELSE IF st.not_found_items # <<>>
                 THEN Msg("Couldn't process removal. {} not in order.",
                          st.not_found_items)
                 ELSE Msg("Nothing removed.", <<>>)
      [] action = "modify" ->
            IF st.actually_modified # <<>>
            THEN Msg("Updated your order: {}", QtyNames(st.actually_modified))
            ELSE Msg("I couldn't find those items to modify.", <<>>)
      [] OTHER -> Msg("Sorry, I couldn't process that order request.", <<>>)

\* the "Responses" section
Respond(action, post_placement, st) ==
    IF action = "remove" /\ post_placement /\ st.food_list = EmptyDict
    THEN FULL_CANCELLATION_CONFIRMED
    ELSE CASE action = "add" ->
                IF st.actually_added # <<>>
                THEN Msg("Added {} to your order!", QtyNames(st.actually_added))
                ELSE Msg("I couldn't find those items in our menu.", <<>>)
           [] action = "remove" ->
                IF st.actually_removed # <<>>
                THEN Msg("Removed {} from your order!", QtyNames(st.actually_removed))
                ELSE IF st.not_found_items # <<>>
                     THEN Msg("Couldn't process removal. {} not in order.",
                              st.not_found_items)
                     ELSE Msg("Nothing removed.", <<>>)
           [] action = "modify" ->
                IF st.actually_modified # <<>>
                THEN Msg("Updated your order: {}", QtyNames(st.actually_modified))
                ELSE Msg("I couldn't find those items to modify.", <<>>)
           [] OTHER -> Msg("Sorry, I couldn't process that order request.", <<>>)

NoTrace ==
    [food_list |-> EmptyDict, actually_added |-> <<>>, actually_removed |-> <<>>,
     actually_modified |-> <<>>, not_found_items |-> <<>>]

\* ClearOrder that also takes the session back to IDLE
ClearOrderResetPhase(config, post_placement) ==
    [config |-> [config EXCEPT !.food_list = EmptyDict, !.phase = "IDLE"],
     ret |-> IF post_placement THEN FULL_CANCELLATION_CONFIRMED ELSE OrderCleared,
     trace |-> NoTrace]

\* ClearOrder that keeps the cart of a placed order
ClearOrderKeepPlaced(config, post_placement) ==
    [config |-> IF post_placement THEN config
                ELSE [config EXCEPT !.food_list = EmptyDict],
     ret |-> IF post_placement THEN FULL_CANCELLATION_CONFIRMED ELSE OrderCleared,
     trace |-> NoTrace]

\* the "clear" branch
ClearOrder(config, post_placement) ==
    [config |-> [config EXCEPT !.food_list = EmptyDict],
     ret |-> IF post_placement THEN FULL_CANCELLATION_CONFIRMED ELSE OrderCleared,
     trace |-> NoTrace]

\* AdvancePhase without the ORDER_PLACED test
AdvancePhaseAlways(config, current_phase) ==
    [config EXCEPT !.phase = "ORDERING"]

\* AdvancePhase that places the order on a call in phase ORDERING
AdvancePhasePlacesOrder(config, current_phase) ==
    IF current_phase = "ORDERING"
    THEN [config EXCEPT !.phase = "ORDER_PLACED"]
    ELSE IF current_phase # "ORDER_PLACED"
         THEN [config EXCEPT !.phase = "ORDERING"]
         ELSE config

\* the phase update after the loop
AdvancePhase(config, current_phase) ==
    IF current_phase # "ORDER_PLACED"
    THEN [config EXCEPT !.phase = "ORDERING"]
    ELSE config

\* a substitute result that cancels the order
NeutralResultClear ==
    [items |-> <<>>, action |-> "clear", should_update |-> FALSE,
     has_customization |-> FALSE, customization_text |-> <<>>]

\* the neutral result substituted when the classifier chain raises
NeutralResult ==
    [items |-> <<>>, action |-> "none", should_update |-> FALSE,
     has_customization |-> FALSE, customization_text |-> <<>>]

\* str.strip() on blanks
RECURSIVE LStrip(_)
LStrip(s) == IF s # <<>> /\ Head(s) = " " THEN LStrip(Tail(s)) ELSE s
RECURSIVE RStrip(_)
RStrip(s) ==
    IF s # <<>> /\ s[Len(s)] = " " THEN RStrip(SubSeq(s, 1, Len(s) - 1)) ELSE s
Strip(s) == LStrip(RStrip(s))

\* StoreCustomization that replaces the stored notes
StoreCustomizationOverwrite(config, result) ==
    IF result.has_customization
    THEN [config EXCEPT !.food_customization_details =
                           Strip(result.customization_text)]
    ELSE config

\* the customization update at the end of extract_order_items_from_query
StoreCustomization(config, result) ==
    IF result.has_customization
    THEN LET existing == config.food_customization_details
             text == Strip(result.customization_text)
         IN [config EXCEPT !.food_customization_details =
                IF existing # <<>> THEN existing \o <<";", " ">> \o text ELSE text]
    ELSE config

\* extract_order_items_from_query: llm is the classifier's structured output,
\* or "raise" when the chain raises
extract_order_items_from_query(llm, config) ==
    LET result == IF llm.raises THEN NeutralResult ELSE llm.result
    IN [result |-> result, config |-> StoreCustomization(config, result)]

\* execute_order_management on a session record; menu_data is what the
\* second fetch_all_tenant_contexts call gave for the tenant
execute_order_management(llm, menu_data, config0) ==
    LET current_phase == config0.phase
        post_placement == is_post_placement(config0)
        ex == extract_order_items_from_query(llm, config0)
        result == ex.result
        config == ex.config
    IN IF result.action = "clear"
       THEN ClearOrder(config, post_placement)
       ELSE LET st == ApplyItems([NoTrace EXCEPT !.food_list = config.food_list],
                                 result.action, name_to_id(menu_data),
                                 result.items)
                purged == [st EXCEPT !.food_list = Purge(st.food_list)]
                config1 == [config EXCEPT !.food_list = purged.food_list]
            IN [config |-> AdvancePhase(config1, current_phase),
                ret |-> Respond(result.action, post_placement, purged),
                trace |-> purged]

----------------------------------------------------------------------------
(* Inputs *)

SessionIds == {"default"}
TenantKeys == {"acme"}
ItemActions == {"add", "remove", "modify"}

\* item references by name, in another letter case than the menu's: the two
\* menu items of "acme" and a name that is on no menu
NameRefs == { <<"B","U","N">>, <<"t","e","a">>, <<"P","i","e">> }
\* item references: the names, and the menu_id of the first menu item
Refs == NameRefs \cup { <<"1","0","1">> }
Qtys == (0 - MaxNegQty)..MaxQty

\* item lists: one item of any reference and quantity, or 2..MaxItems items
\* referenced by name with quantity 1
FoodItems == [name : Refs, quantity : Qtys]
BatchItems == [name : NameRefs, quantity : {1}]
ItemLists ==
    {<<>>} \cup {<<i>> : i \in FoodItems}
           \cup UNION { [1..n -> BatchItems] : n \in 2..MaxItems }

\* classifier outputs without customization: add, remove or modify of an
\* item list; clear and none (which never read the items) with and without
\* an item
Results ==
    [items : ItemLists, action : ItemActions, should_update : {TRUE},
     has_customization : {FALSE}, customization_text : {<<>>}]
    \cup
    [items : {<<>>, <<[name |-> <<"B","U","N">>, quantity |-> 1]>>},
     action : {"clear", "none"}, should_update : {TRUE},
     has_customization : {FALSE}, customization_text : {<<>>}]

LlmOutcomes ==
    [raises : {FALSE}, result : Results]
        \cup {[raises |-> TRUE, result |-> NeutralResult]}

CartWithinBound(food_list) ==
    \A k \in DOMAIN food_list : food_list[k] <= MaxCartQty

NotesWithinBound(config) == Len(config.food_customization_details) <= MaxNotesLen

----------------------------------------------------------------------------
(* Actions *)

NoCall ==
    [op |-> "none", session_id |-> "", tenant_key |-> "", raises |-> FALSE,
     result |-> NeutralResult, menu_data |-> <<>>]

NoRet == Msg("", <<>>)

\* no requests are being run statement by statement
NoConc == [heap |-> <<>>, config |-> [phase |-> "IDLE", food_list |-> 0],
           threads |-> <<>>]

\* order_management_call with one record shared by all sessions
order_management_call_shared(sessions0, cache0, session_id, tenant_key, llm, ok1, ok2) ==
    LET sessions == get_session(sessions0, session_id)
        config == sessions[session_id]
        f1 == fetch_all_tenant_contexts(cache0, ok1)
        f2 == fetch_all_tenant_contexts(f1.cache, ok2)
        menu_data == MenuData(f2.value, tenant_key)
        out == execute_order_management(llm, menu_data, config)
    IN [sessions |-> [s \in DOMAIN sessions |-> out.config],
        cache |-> f2.cache, config |-> config, menu_data |-> menu_data,
        trace |-> out.trace, ret |-> out.ret]

\* server.py order_management as a function of the state it starts from:
\* get_session, then execute_order_management, whose two calls of
\* fetch_all_tenant_contexts succeed or fail as ok1 and ok2 say
order_management_call(sessions0, cache0, session_id, tenant_key, llm, ok1, ok2) ==
    LET sessions == get_session(sessions0, session_id)
        config == sessions[session_id]
        f1 == fetch_all_tenant_contexts(cache0, ok1)
        f2 == fetch_all_tenant_contexts(f1.cache, ok2)
        menu_data == MenuData(f2.value, tenant_key)
        out == execute_order_management(llm, menu_data, config)
    IN [sessions |-> [sessions EXCEPT ![session_id] = out.config],
        cache |-> f2.cache, config |-> config, menu_data |-> menu_data,
        trace |-> out.trace, ret |-> out.ret]

order_management(session_id, tenant_key, llm, ok1, ok2) ==
    \E r \in {order_management_call(SESSIONS, TENANT_CONTEXTS_CACHE, session_id,
                                    tenant_key, llm, ok1, ok2)} :
       /\ CartWithinBound(r.sessions[session_id].food_list)
       /\ NotesWithinBound(r.sessions[session_id])
       /\ SESSIONS' = r.sessions
       /\ TENANT_CONTEXTS_CACHE' = r.cache
       /\ call' = [op |-> "order_management", session_id |-> session_id,
                   tenant_key |-> tenant_key, raises |-> llm.raises,
                   result |-> IF llm.raises THEN NeutralResult ELSE llm.result,
                   menu_data |-> r.menu_data]
       /\ pre' = r.config
       /\ trace' = r.trace
       /\ ret' = r.ret
       /\ prev_clear' = IF call.op = "order_management"
                           /\ call.result.action = "clear"
                           /\ call.session_id = session_id
                        THEN ret ELSE NoRet
       /\ UNCHANGED conc

\* outcomes of the two store reads of a call: with a populated cache the
\* store is not read; after a successful first read the second is not made
FetchOutcomes ==
    IF TENANT_CONTEXTS_CACHE.is_none
    THEN {<<TRUE, TRUE>>, <<FALSE, TRUE>>, <<FALSE, FALSE>>}
    ELSE {<<TRUE, TRUE>>}

OrderManagement ==
    \E session_id \in SessionIds, tenant_key \in TenantKeys, llm \in LlmOutcomes,
       ok \in FetchOutcomes :
        order_management(session_id, tenant_key, llm, ok[1], ok[2])

\* The cart engine is entered with a session of the store in any phase of
\* the enumeration: the store is empty, or holds a session whose phase the
\* host application has set.
Init ==
    /\ SESSIONS \in {EmptyDict} \cup
          {[s \in {"default"} |-> [NewSession EXCEPT !.phase = p]] : p \in Phases}
    /\ TENANT_CONTEXTS_CACHE = NoCache
    /\ call = NoCall
    /\ pre = NewSession
    /\ trace = NoTrace
    /\ ret = NoRet
    /\ prev_clear = NoRet
    /\ conc = NoConc

Next == OrderManagement

Spec == Init /\ [][Next]_vars

----------------------------------------------------------------------------
(* The menu guide *)

\* the JSON returned when the tenant has no menu data
NoMenuData ==
    Msg("I'm sorry, I couldn't find any menu data for this restaurant.",
        << <<"intent", "other">>, <<"items">> >>)

\* the dict returned when the classifier chain raises
GuideError ==
    Msg("I'm having trouble understanding the menu right now. Could you ask again?",
        << <<"intent", "other">>, <<"items">> >>)

\* category of the first menu entry whose str(menu_id) is str(item_id), "" if
\* item_id is falsy or on no menu entry
CategoryOfItem(menu_data, item_id) ==
    LET hits == {i \in 1..Len(menu_data) :
                    Str(menu_data[i].menu_id) = Str(item_id)}
    IN IF item_id = 0 \/ hits = {} THEN ""
       ELSE menu_data[CHOOSE i \in hits : \A j \in hits : i <= j].category

\* CASE A of the post-processing: category navigation
GuideCategory(config, result) ==
    IF result.category_match # ""
    THEN [config |-> [config EXCEPT !.current_category = result.category_match],
          ret |-> Msg("menu/category",
                      << <<result.category_match>>,
                         IF result.response_text # ""
                         THEN <<result.response_text>>
                         ELSE <<"Here is our {} menu.", result.category_match>> >>)]
    ELSE [config |-> config,
          ret |-> Msg("menu/category",
                      << <<"">>,
                         <<"I couldn't find that category. Please allow me to show you the main menu.">> >>)]

\* GuideItems that puts the first matched item into the cart
GuideItemsIntoCart(config, menu_data, result) ==
    LET final_category ==
            IF result.category_match # "" THEN result.category_match
            ELSE IF result.items # <<>>
                 THEN CategoryOfItem(menu_data, result.items[1].menu_id)
                 ELSE ""
        config1 == IF final_category # ""
                   THEN [config EXCEPT !.current_category = final_category]
                   ELSE config
    IN [config |-> IF result.items # <<>>
                   THEN [config1 EXCEPT !.food_list =
                            DictSet(@, Str(result.items[1].menu_id), 1)]
                   ELSE config1,
        ret |-> Msg("query", << <<result.intent>>, result.items,
                                <<final_category>>, <<result.response_text>> >>)]

\* CASE B of the post-processing: recommendation, availability, other
GuideItems(config, menu_data, result) ==
    LET category_for_items ==
            IF result.items # <<>>
            THEN CategoryOfItem(menu_data, result.items[1].menu_id)
            ELSE ""
        final_category ==
            IF result.category_match # "" THEN result.category_match
            ELSE category_for_items
        response_text ==
            IF result.response_text # "" THEN <<result.response_text>>
            ELSE IF result.items # <<>>
                 THEN <<"I found {}. Would you like to try them?",
                        [i \in 1..(IF Len(result.items) < 2 THEN Len(result.items) ELSE 2)
                            |-> result.items[i].name]>>
                 ELSE <<"I couldn't find anything matching that request.">>
    IN [config |-> IF final_category # ""
                   THEN [config EXCEPT !.current_category = final_category]
                   ELSE config,
        ret |-> Msg("query", << <<result.intent>>, result.items,
                                <<final_category>>, response_text >>)]

\* execute_menu_guide without the test for an empty menu
execute_menu_guide_no_menu_test(guide, menu_data, config0) ==
    LET config == [config0 EXCEPT !.phase = "MENU_BROWSING"]
    IN IF guide.raises THEN [config |-> config, ret |-> GuideError]
       ELSE IF guide.result.intent = "category_filter"
            THEN GuideCategory(config, guide.result)
            ELSE GuideItems(config, menu_data, guide.result)

\* execute_menu_guide without the phase assignment
execute_menu_guide_keep_phase(guide, menu_data, config0) ==
    IF menu_data = <<>> THEN [config |-> config0, ret |-> NoMenuData]
    ELSE IF guide.raises THEN [config |-> config0, ret |-> GuideError]
    ELSE IF guide.result.intent = "category_filter"
         THEN GuideCategory(config0, guide.result)
         ELSE GuideItems(config0, menu_data, guide.result)

\* execute_menu_guide on a session record; guide is the classifier's
\* structured output, or says that the chain raises
execute_menu_guide(guide, menu_data, config0) ==
    LET config == [config0 EXCEPT !.phase = "MENU_BROWSING"]
    IN IF menu_data = <<>> THEN [config |-> config, ret |-> NoMenuData]
       ELSE IF guide.raises THEN [config |-> config, ret |-> GuideError]
       ELSE IF guide.result.intent = "category_filter"
            THEN GuideCategory(config, guide.result)
            ELSE GuideItems(config, menu_data, guide.result)

\* the classifier's outputs for the menu guide
GuideResults ==
    [intent : {"category_filter", "recommendation"},
     category_match : {"", "Snacks"},
     items : {<<>>, <<[name |-> <<"T","e","a">>, menu_id |-> 102]>>},
     response_text : {"", "Here you are."}]

NoGuideResult ==
    [intent |-> "other", category_match |-> "", items |-> <<>>,
     response_text |-> ""]

GuideOutcomes ==
    [raises : {FALSE}, result : GuideResults]
        \cup {[raises |-> TRUE, result |-> NoGuideResult]}

\* server.py menu_guide as a function of the state it starts from
menu_guide_call(sessions0, cache0, session_id, tenant_key, guide, ok) ==
    LET sessions == get_session(sessions0, session_id)
        config == sessions[session_id]
        f == fetch_all_tenant_contexts(cache0, ok)
        menu_data == MenuData(f.value, tenant_key)
        out == execute_menu_guide(guide, menu_data, config)
    IN [sessions |-> [sessions EXCEPT ![session_id] = out.config],
        cache |-> f.cache, config |-> config, menu_data |-> menu_data,
        ret |-> out.ret]

menu_guide(session_id, tenant_key, guide, ok) ==
    \E r \in {menu_guide_call(SESSIONS, TENANT_CONTEXTS_CACHE, session_id,
                              tenant_key, guide, ok)} :
       /\ SESSIONS' = r.sessions
       /\ TENANT_CONTEXTS_CACHE' = r.cache
       /\ call' = [op |-> "menu_guide", session_id |-> session_id,
                   tenant_key |-> tenant_key, raises |-> guide.raises,
                   result |-> guide.result, menu_data |-> r.menu_data]
       /\ pre' = r.config
       /\ trace' = NoTrace
       /\ ret' = r.ret
       /\ prev_clear' = NoRet
       /\ UNCHANGED conc

----------------------------------------------------------------------------
(* Both tools on one session that starts in any phase *)

ToolsTenantKeys == {"acme", "void"}

\* add, remove or modify of one item (on the menu, or on none) with
\* quantity 1; clear with and without an item; none
ToolsResults ==
    [items : {<<[name |-> n, quantity |-> 1]>> :
                 n \in {<<"B","U","N">>, <<"P","i","e">>}},
     action : ItemActions, should_update : {TRUE},
     has_customization : {FALSE}, customization_text : {<<>>}]
    \cup
    [items : {<<>>, <<[name |-> <<"B","U","N">>, quantity |-> 1]>>},
     action : {"clear"}, should_update : {TRUE},
     has_customization : {FALSE}, customization_text : {<<>>}]
    \cup
    [items : {<<>>}, action : {"none"}, should_update : {TRUE},
     has_customization : {FALSE}, customization_text : {<<>>}]

ToolsLlmOutcomes ==
    [raises : {FALSE}, result : ToolsResults]
        \cup {[raises |-> TRUE, result |-> NeutralResult]}

MenuGuideTools ==
    \E session_id \in SessionIds, tenant_key \in ToolsTenantKeys,
       guide \in GuideOutcomes, ok \in FetchOutcomes :
        menu_guide(session_id, tenant_key, guide, ok[1])

OrderManagementTools ==
    \E session_id \in SessionIds, tenant_key \in ToolsTenantKeys,
       llm \in ToolsLlmOutcomes, ok \in FetchOutcomes :
        order_management(session_id, tenant_key, llm, ok[1], ok[2])

NextTools == MenuGuideTools \/ OrderManagementTools

SpecTools == Init /\ [][NextTools]_vars

\* The server after start-up: the store is empty, and every session is one
\* that get_session created.
InitFresh ==
    /\ SESSIONS = EmptyDict
    /\ TENANT_CONTEXTS_CACHE = NoCache
    /\ call = NoCall
    /\ pre = NewSession
    /\ trace = NoTrace
    /\ ret = NoRet
    /\ prev_clear = NoRet
    /\ conc = NoConc

SpecFresh == InitFresh /\ [][NextTools]_vars

----------------------------------------------------------------------------
(* Both tools on two sessions *)

SessionsIds == {"default", "s2"}

\* add and remove of one menu item with quantity 1; clear
SessionsResults ==
    [items : {<<[name |-> <<"B","U","N">>, quantity |-> 1]>>},
     action : {"add", "remove"}, should_update : {TRUE},
     has_customization : {FALSE}, customization_text : {<<>>}]
    \cup
    [items : {<<>>}, action : {"clear"}, should_update : {TRUE},
     has_customization : {FALSE}, customization_text : {<<>>}]

SessionsLlmOutcomes ==
    [raises : {FALSE}, result : SessionsResults]
        \cup {[raises |-> TRUE, result |-> NeutralResult]}

\* the guide names a category, or matches an item of another category
SessionsGuideOutcomes ==
    {g \in GuideOutcomes :
        \/ g.raises
        \/ /\ g.result.response_text = ""
           /\ \/ g.result.intent = "category_filter" /\ g.result.items = <<>>
                 /\ g.result.category_match # ""
              \/ g.result.intent = "recommendation" /\ g.result.items # <<>>
                 /\ g.result.category_match = ""}

MenuGuideSessions ==
    \E session_id \in SessionsIds, tenant_key \in TenantKeys,
       guide \in SessionsGuideOutcomes, ok \in FetchOutcomes :
        menu_guide(session_id, tenant_key, guide, ok[1])

OrderManagementSessions ==
    \E session_id \in SessionsIds, tenant_key \in TenantKeys,
       llm \in SessionsLlmOutcomes, ok \in FetchOutcomes :
        order_management(session_id, tenant_key, llm, ok[1], ok[2])

NextSessions == MenuGuideSessions \/ OrderManagementSessions

SpecSessions == Init /\ [][NextSessions]_vars

----------------------------------------------------------------------------
(* The cart engine with customization phrases *)

\* phrases the classifier captures: none, a word, a word between blanks
NotesTexts == { <<>>, <<"h","o","t">>, <<" ","n","o"," ">> }

\* add of a menu item, clear, none; with and without a customization
NotesResults ==
    [items : {<<[name |-> <<"B","U","N">>, quantity |-> 1]>>},
     action : {"add"}, should_update : {TRUE},
     has_customization : BOOLEAN, customization_text : NotesTexts]
    \cup
    [items : {<<>>}, action : {"clear", "none"}, should_update : {TRUE},
     has_customization : BOOLEAN, customization_text : NotesTexts]

NotesLlmOutcomes ==
    [raises : {FALSE}, result : NotesResults]
        \cup {[raises |-> TRUE, result |-> NeutralResult]}

OrderManagementNotes ==
    \E session_id \in SessionIds, tenant_key \in TenantKeys,
       llm \in NotesLlmOutcomes, ok \in FetchOutcomes :
        order_management(session_id, tenant_key, llm, ok[1], ok[2])

NextNotes == OrderManagementNotes

SpecNotes == Init /\ [][NextNotes]_vars

\* the menu guide on sessions that hold a cart and customization notes
NextGuideNotes == MenuGuideTools \/ OrderManagementNotes

SpecGuideNotes == Init /\ [][NextGuideNotes]_vars

----------------------------------------------------------------------------
(* Two order_management requests for one session, run statement by
   statement.  The session's dict and the cart dicts are objects of a heap:
   conc.config holds the session's phase and the reference its "food_list"
   key holds, each thread holds its locals.  The code takes no lock. *)

ConcThreads == 1..2
ConcSessionId == "default"
ConcMenuData == MenuData(MongoTenantContexts, "acme")

\* add, remove or modify of one menu item; clear
ConcResults ==
    [items : {<<[name |-> n, quantity |-> 1]>> :
                 n \in {<<"B","U","N">>, <<"t","e","a">>}},
     action : {"add", "remove"}, should_update : {TRUE},
     has_customization : {FALSE}, customization_text : {<<>>}]
    \cup
    [items : {<<[name |-> <<"B","U","N">>, quantity |-> 2]>>},
     action : {"modify"}, should_update : {TRUE},
     has_customization : {FALSE}, customization_text : {<<>>}]
    \cup
    [items : {<<>>}, action : {"clear"}, should_update : {TRUE},
     has_customization : {FALSE}, customization_text : {<<>>}]

\* carts the session holds when the two requests arrive
ConcCarts ==
    {EmptyDict} \cup {DictSet(EmptyDict, Str(101), q) : q \in 1..MaxCartQty}

ConcPhases == {"ORDERING", "ORDER_PLACED"}

\* a request that has not started
NewThread(result) ==
    [pc |-> "start", result |-> result, current_phase |-> "",
     post_placement |-> FALSE, food_list |-> 0, i |-> 1, st |-> NoTrace,
     ret |-> NoRet]

\* the session record that the heap holds
ConcSession(c) ==
    [phase |-> c.config.phase, current_category |-> "",
     food_list |-> c.heap[c.config.food_list],
     food_customization_details |-> <<>>]

\* a step of a thread: the heap after it, seen as the store
ConcStep(c) ==
    /\ conc' = c
    /\ SESSIONS' = [SESSIONS EXCEPT ![ConcSessionId] = ConcSession(c)]
    /\ UNCHANGED <<TENANT_CONTEXTS_CACHE, call, pre, trace, ret, prev_clear>>

\* get_session; current_phase, post_placement; the classifier's result
ConcEnter(t) ==
    /\ conc.threads # <<>>
    /\ conc.threads[t].pc = "start"
    /\ ConcStep([conc EXCEPT
           !.threads[t].pc = "bind",
           !.threads[t].current_phase = conc.config.phase,
           !.threads[t].post_placement = is_post_placement(conc.config)])

\* food_list = config.setdefault("food_list", {})
ConcBind(t) ==
    /\ conc.threads # <<>>
    /\ conc.threads[t].pc = "bind"
    /\ ConcStep([conc EXCEPT
           !.threads[t].pc =
               IF conc.threads[t].result.action = "clear" THEN "clear" ELSE "loop",
           !.threads[t].food_list = conc.config.food_list])

\* the "clear" branch: config["food_list"] = {} and return
ConcClear(t) ==
    /\ conc.threads # <<>>
    /\ conc.threads[t].pc = "clear"
    /\ ConcStep([conc EXCEPT
           !.heap = Append(@, EmptyDict),
           !.config.food_list = Len(conc.heap) + 1,
           !.threads[t].pc = "done",
           !.threads[t].ret =
               ClearOrder(ConcSession(conc), conc.threads[t].post_placement).ret])

\* one iteration of the loop, on the dict the thread's food_list refers to
ConcItem(t) ==
    /\ conc.threads # <<>>
    /\ conc.threads[t].pc = "loop"
    /\ conc.threads[t].i <= Len(conc.threads[t].result.items)
    /\ LET th == conc.threads[t]
           st == ApplyItem([th.st EXCEPT !.food_list = conc.heap[th.food_list]],
                           th.result.action, name_to_id(ConcMenuData),
                           th.result.items[th.i])
       IN ConcStep([conc EXCEPT
              !.heap[th.food_list] = st.food_list,
              !.threads[t].st = [st EXCEPT !.food_list = EmptyDict],
              !.threads[t].i = th.i + 1])

\* food_list = {k: v for k, v in food_list.items() if v > 0}: a new dict
ConcPurge(t) ==
    /\ conc.threads # <<>>
    /\ conc.threads[t].pc = "loop"
    /\ conc.threads[t].i > Len(conc.threads[t].result.items)
    /\ ConcStep([conc EXCEPT
           !.heap = Append(@, Purge(conc.heap[conc.threads[t].food_list])),
           !.threads[t].food_list = Len(conc.heap) + 1,
           !.threads[t].pc = "store"])

\* config["food_list"] = food_list
ConcStore(t) ==
    /\ conc.threads # <<>>
    /\ conc.threads[t].pc = "store"
    /\ ConcStep([conc EXCEPT
           !.config.food_list = conc.threads[t].food_list,
           !.threads[t].pc = "phase"])

\* the phase update and the response
ConcReturn(t) ==
    /\ conc.threads # <<>>
    /\ conc.threads[t].pc = "phase"
    /\ LET th == conc.threads[t]
       IN ConcStep([conc EXCEPT
              !.config = AdvancePhase(@, th.current_phase),
              !.threads[t].pc = "done",
              !.threads[t].ret =
                  Respond(th.result.action, th.post_placement,
                          [th.st EXCEPT !.food_list = conc.heap[th.food_list]])])

InitConc ==
    /\ conc \in {[heap |-> <<cart>>,
                  config |-> [phase |-> p, food_list |-> 1],
                  threads |-> <<NewThread(r1), NewThread(r2)>>] :
                    cart \in ConcCarts, p \in ConcPhases,
                    r1 \in ConcResults, r2 \in ConcResults}
    /\ SESSIONS = [s \in {ConcSessionId} |-> ConcSession(conc)]
    /\ TENANT_CONTEXTS_CACHE = fetch_all_tenant_contexts(NoCache, TRUE).cache
    /\ call = NoCall
    /\ pre = ConcSession(conc)
    /\ trace = NoTrace
    /\ ret = NoRet
    /\ prev_clear = NoRet

NextConc ==
    \E t \in ConcThreads :
        \/ ConcEnter(t)
        \/ ConcBind(t)
        \/ ConcClear(t)
        \/ ConcItem(t)
        \/ ConcPurge(t)
        \/ ConcStore(t)
        \/ ConcReturn(t)

SpecConc == InitConc /\ [][NextConc]_vars

----------------------------------------------------------------------------
(* fetch_all_tenant_contexts called from two threads, run statement by
   statement.  conc.threads holds each thread's position, its local
   tenant_contexts and the value its last call returned; conc.loads counts
   the assignments to _TENANT_CONTEXTS_CACHE.  The code takes no lock. *)

FetchThreads == 1..2

\* what the TENANT_INFO collection holds when it is read: both tenants, or
\* "acme" only
MongoSnapshots ==
    {MongoTenantContexts, [t \in {"acme"} |-> MongoTenantContexts[t]]}

\* a thread that has made no call
NewFetchThread ==
    [pc |-> "idle", calls |-> 0, tenant_contexts |-> EmptyDict,
     returned |-> FALSE, ret |-> EmptyDict]

FetchStep(c) ==
    /\ conc' = c
    /\ UNCHANGED <<SESSIONS, call, pre, trace, ret, prev_clear>>

\* if _TENANT_CONTEXTS_CACHE is not None: return _TENANT_CONTEXTS_CACHE
FetchHit(t) ==
    /\ conc.threads[t].pc = "idle"
    /\ conc.threads[t].calls < MaxFetchCalls
    /\ ~TENANT_CONTEXTS_CACHE.is_none
    /\ UNCHANGED TENANT_CONTEXTS_CACHE
    /\ FetchStep([conc EXCEPT
           !.threads[t].calls = @ + 1,
           !.threads[t].returned = TRUE,
           !.threads[t].ret = TENANT_CONTEXTS_CACHE.value])

\* the cache is None: the call goes on to read the store
FetchMiss(t) ==
    /\ conc.threads[t].pc = "idle"
    /\ conc.threads[t].calls < MaxFetchCalls
    /\ TENANT_CONTEXTS_CACHE.is_none
    /\ UNCHANGED TENANT_CONTEXTS_CACHE
    /\ FetchStep([conc EXCEPT
           !.threads[t].calls = @ + 1,
           !.threads[t].returned = FALSE,
           !.threads[t].pc = "read"])

\* MONGO_URI is unset, or the read raises: return {}
FetchFail(t) ==
    /\ conc.threads[t].pc = "read"
    /\ UNCHANGED TENANT_CONTEXTS_CACHE
    /\ FetchStep([conc EXCEPT
           !.threads[t].pc = "idle",
           !.threads[t].returned = TRUE,
           !.threads[t].ret = EmptyDict])

\* the try block up to the assignment: tenant_contexts is built
FetchRead(t) ==
    /\ conc.threads[t].pc = "read"
    /\ UNCHANGED TENANT_CONTEXTS_CACHE
    /\ \E docs \in MongoSnapshots :
          FetchStep([conc EXCEPT
              !.threads[t].pc = "assign",
              !.threads[t].tenant_contexts = docs])

\* _TENANT_CONTEXTS_CACHE = tenant_contexts; return tenant_contexts
FetchAssign(t) ==
    /\ conc.threads[t].pc = "assign"
    /\ TENANT_CONTEXTS_CACHE' =
          [is_none |-> FALSE, value |-> conc.threads[t].tenant_contexts]
    /\ FetchStep([conc EXCEPT
           !.loads = @ + 1,
           !.threads[t].pc = "idle",
           !.threads[t].returned = TRUE,
           !.threads[t].ret = conc.threads[t].tenant_contexts])

InitCache ==
    /\ SESSIONS = EmptyDict
    /\ TENANT_CONTEXTS_CACHE = NoCache
    /\ call = NoCall
    /\ pre = NewSession
    /\ trace = NoTrace
    /\ ret = NoRet
    /\ prev_clear = NoRet
    /\ conc = [threads |-> [t \in FetchThreads |-> NewFetchThread], loads |-> 0]

NextCache ==
    \E t \in FetchThreads :
        \/ FetchHit(t)
        \/ FetchMiss(t)
        \/ FetchFail(t)
        \/ FetchRead(t)
        \/ FetchAssign(t)

SpecCache == InitCache /\ [][NextCache]_vars

----------------------------------------------------------------------------
(* Vocabulary of the properties *)

Called == call.op = "order_management"

\* the cart of the session of the last call, after the call
Cart == SESSIONS[call.session_id].food_list

\* the phase of the session of the last call, after the call
Phase == SESSIONS[call.session_id].phase

\* cart keys of the menu entries that a reference names (any letter case)
KeysByName(menu_data, ref) ==
    {Str(menu_data[i].menu_id) :
        i \in {j \in 1..Len(menu_data) :
                  Lower(ItemName(menu_data[j])) = Lower(ref)}}

\* cart keys of the menu entries whose menu_id a reference spells
KeysById(menu_data, ref) ==
    IF ref \in DOMAIN id_to_item(menu_data) THEN {ref} ELSE {}

\* positions of the last command's items that name the entry with key k
ItemsFor(k) ==
    {i \in 1..Len(call.result.items) :
        k \in KeysByName(call.menu_data, call.result.items[i].name)}

\* positions of the last command's items that name no menu entry
UnresolvedItems ==
    {i \in 1..Len(call.result.items) :
        KeysByName(call.menu_data, call.result.items[i].name) = {}}

RECURSIVE SumQty(_)
SumQty(I) ==
    IF I = {} THEN 0
    ELSE LET i == CHOOSE x \in I : TRUE
         IN call.result.items[i].quantity + SumQty(I \ {i})

MenuKeys == {Str(call.menu_data[i].menu_id) : i \in 1..Len(call.menu_data)}

Qty(food_list, k) == DictGet(food_list, k, 0)

----------------------------------------------------------------------------
(* Properties *)

\* C1: cart non-negativity.  After any sequence of order_management calls
\* (any action, any integer quantities, any phase), no entry of any
\* session's cart has a quantity <= 0.
C1_CartPositive ==
    \A s \in DOMAIN SESSIONS :
        \A k \in DOMAIN SESSIONS[s].food_list : SESSIONS[s].food_list[k] > 0

\* a modify with a negative quantity has returned and left no entry
C1_Witness ==
    /\ Called
    /\ call.result.action = "modify"
    /\ \E i \in 1..Len(trace.actually_modified) :
          /\ trace.actually_modified[i].quantity < 0
          /\ ItemsFor(Str(101)) # {}
          /\ Str(101) \notin DOMAIN Cart

\* C2: add accumulates.  After an add whose items that name a menu entry
\* all have quantity >= 1, every cart key holds its previous quantity (0 if
\* absent) plus the quantities of the items that name it; keys no item
\* names are unchanged.
C2_AddAccumulates ==
    ( /\ Called
      /\ call.result.action = "add"
      /\ \A k \in MenuKeys : \A i \in ItemsFor(k) :
            call.result.items[i].quantity >= 1 )
    => \A k \in MenuKeys \cup DOMAIN Cart \cup DOMAIN pre.food_list :
          Qty(Cart, k) = Qty(pre.food_list, k) + SumQty(ItemsFor(k))

\* an add of an item already in the cart, beside another entry
C2_Witness ==
    /\ Called
    /\ call.result.action = "add"
    /\ ItemsFor(Str(101)) # {}
    /\ Qty(pre.food_list, Str(101)) = 1
    /\ Qty(Cart, Str(101)) = 2
    /\ Qty(pre.food_list, Str(102)) = 1
    /\ Qty(Cart, Str(102)) = 1

\* C3: remove floors at zero and deletes.  After a remove in which exactly
\* one item, of quantity q, names an entry that was in the cart with
\* quantity c, the entry holds c - q when q < c and is absent when q >= c.
C3_RemoveFloors ==
    ( /\ Called
      /\ call.result.action = "remove" )
    => \A k \in DOMAIN pre.food_list :
          Cardinality(ItemsFor(k)) = 1 =>
             LET q == SumQty(ItemsFor(k))
                 c == pre.food_list[k]
             IN IF q < c
                THEN k \in DOMAIN Cart /\ Cart[k] = c - q
                ELSE k \notin DOMAIN Cart

\* a remove of more than the cart held has deleted the entry
C3_Witness ==
    /\ Called
    /\ call.result.action = "remove"
    /\ Cardinality(ItemsFor(Str(101))) = 1
    /\ Qty(pre.food_list, Str(101)) = 1
    /\ SumQty(ItemsFor(Str(101))) = 2
    /\ Str(101) \notin DOMAIN Cart

\* C4: modify is absolute.  After a modify in which exactly one item, of
\* quantity q, names a menu entry, the entry holds q when q > 0, whatever it
\* held before (also nothing), and is absent when q = 0.
C4_ModifyAbsolute ==
    ( /\ Called
      /\ call.result.action = "modify" )
    => \A k \in MenuKeys :
          Cardinality(ItemsFor(k)) = 1 =>
             LET q == SumQty(ItemsFor(k))
             IN /\ q > 0 => k \in DOMAIN Cart /\ Cart[k] = q
                /\ q = 0 => k \notin DOMAIN Cart

\* a modify to 1 of an entry that held 2
C4_Witness ==
    /\ Called
    /\ call.result.action = "modify"
    /\ Cardinality(ItemsFor(Str(101))) = 1
    /\ SumQty(ItemsFor(Str(101))) = 1
    /\ Qty(pre.food_list, Str(101)) = 2
    /\ Qty(Cart, Str(101)) = 1

\* C5: clear idempotence.  Every clear leaves the cart {} and returns the
\* empty-cart outcome of the session's phase; a clear that directly follows
\* a clear on the same session starts from {} and returns what the first
\* returned.
C5_ClearIdempotent ==
    ( /\ Called
      /\ call.result.action = "clear" )
    => /\ Cart = EmptyDict
       /\ ret = IF pre.phase = "ORDER_PLACED"
                THEN FULL_CANCELLATION_CONFIRMED ELSE OrderCleared
       /\ prev_clear # NoRet => pre.food_list = EmptyDict /\ ret = prev_clear

\* the second of two clears in a row, in a placed order
C5_Witness ==
    /\ Called
    /\ call.result.action = "clear"
    /\ prev_clear = FULL_CANCELLATION_CONFIRMED
    /\ ret = FULL_CANCELLATION_CONFIRMED
    /\ Cart = EmptyDict

\* the outcome names the reference as not found
ReportsNotFound(r, name) ==
    \/ r.fmt = "I couldn't find those items in our menu."
    \/ /\ r.fmt = "Couldn't process removal. {} not in order."
       /\ \E i \in 1..Len(r.args) : r.args[i] = name

\* C6: unresolvable item isolation.  After an add of several items, every
\* item that names a menu entry is in the cart with its quantity added, no
\* entry exists for an item that names none, and each such item is reported
\* as not found in the call's outcome.
C6_UnresolvableIsolation ==
    ( /\ Called
      /\ call.result.action = "add"
      /\ \A i \in 1..Len(call.result.items) :
            call.result.items[i].quantity >= 1 )
    => /\ \A k \in MenuKeys :
             Qty(Cart, k) = Qty(pre.food_list, k) + SumQty(ItemsFor(k))
       /\ DOMAIN Cart \subseteq MenuKeys \cup DOMAIN pre.food_list
       /\ \A i \in UnresolvedItems :
             ReportsNotFound(ret, call.result.items[i].name)

\* C7: post-placement empty-cart signal.  A remove of the only cart entry
\* X with a quantity >= the cart's returns FULL_CANCELLATION_CONFIRMED when
\* the phase was ORDER_PLACED, and the ordinary removal message, which is
\* another value, in any other phase.
C7_PostPlacementSignal ==
    ( /\ Called
      /\ call.result.action = "remove"
      /\ Len(call.result.items) = 1
      /\ \E k \in KeysByName(call.menu_data, call.result.items[1].name) :
            /\ DOMAIN pre.food_list = {k}
            /\ call.result.items[1].quantity >= pre.food_list[k] )
    => /\ pre.phase = "ORDER_PLACED" => ret = FULL_CANCELLATION_CONFIRMED
       /\ pre.phase # "ORDER_PLACED" =>
             /\ ret = Msg("Removed {} from your order!",
                          QtyNames(call.result.items))
             /\ ret # FULL_CANCELLATION_CONFIRMED

\* the remove of the only entry of a placed order has returned the signal
C7_Witness ==
    /\ Called
    /\ call.result.action = "remove"
    /\ Len(call.result.items) = 1
    /\ pre.phase = "ORDER_PLACED"
    /\ DOMAIN pre.food_list = {Str(101)}
    /\ ItemsFor(Str(101)) = {1}
    /\ call.result.items[1].quantity >= pre.food_list[Str(101)]
    /\ ret = FULL_CANCELLATION_CONFIRMED

\* C8: case/ID-flexible resolution.  An add of one item of quantity >= 1
\* that references a menu entry by its name in any letter case or by its
\* menu_id adds to the cart entry of that menu entry.
C8_FlexibleResolution ==
    ( /\ Called
      /\ call.result.action = "add"
      /\ Len(call.result.items) = 1
      /\ call.result.items[1].quantity >= 1 )
    => \A k \in KeysByName(call.menu_data, call.result.items[1].name)
                  \cup KeysById(call.menu_data, call.result.items[1].name) :
          Qty(Cart, k) = Qty(pre.food_list, k) + call.result.items[1].quantity

\* C9: phase advance and stickiness.  After a call that applied at least
\* one add, remove or modify, the phase is ORDER_PLACED if it was
\* ORDER_PLACED before the call and ORDERING otherwise.
C9_PhaseAdvance ==
    ( /\ Called
      /\ \/ trace.actually_added # <<>>
         \/ trace.actually_removed # <<>>
         \/ trace.actually_modified # <<>> )
    => Phase = IF pre.phase = "ORDER_PLACED" THEN "ORDER_PLACED" ELSE "ORDERING"

\* an add has been applied to a placed order, which is still placed
C9_Witness ==
    /\ Called
    /\ call.result.action = "add"
    /\ trace.actually_added # <<>>
    /\ pre.phase = "ORDER_PLACED"
    /\ Phase = "ORDER_PLACED"

\* C10: in phase ORDER_PLACED, a remove, a modify with quantity 0 or a
\* clear that empties the cart returns FULL_CANCELLATION_CONFIRMED and no
\* ordinary message.
C10_PlacedEmptyCartSignal ==
    ( /\ Called
      /\ \/ call.result.action \in {"remove", "clear"}
         \/ /\ call.result.action = "modify"
            /\ \A i \in 1..Len(call.result.items) :
                  call.result.items[i].quantity = 0
      /\ pre.phase = "ORDER_PLACED"
      /\ pre.food_list # EmptyDict
      /\ Cart = EmptyDict )
    => ret = FULL_CANCELLATION_CONFIRMED

----------------------------------------------------------------------------
(* Properties of the menu guide, of clear, and of the session store *)

Guided == call.op = "menu_guide"

\* the record of the session of the last call, after the call
Session == SESSIONS[call.session_id]

\* C11: menu_guide sets the session's phase to MENU_BROWSING on every
\* invocation: whatever the phase was, whether the classifier resolves the
\* query, the tenant menu is empty, or the classifier raises.
C11_GuideSetsBrowsing ==
    Guided => Session.phase = "MENU_BROWSING"

\* menu_guide has returned for a placed order whose tenant has no menu
C11_Witness ==
    /\ Guided
    /\ pre.phase = "ORDER_PLACED"
    /\ call.menu_data = <<>>
    /\ Session.phase = "MENU_BROWSING"

\* C12 as stated: with no menu or an empty menu, menu_guide returns the
\* fixed 'no menu data' response and the session record (phase,
\* current_category, cart, notes) is what it was before the call.
C12_EmptyMenuNoMutation ==
    (Guided /\ call.menu_data = <<>>)
    => /\ ret = NoMenuData
       /\ Session = pre

\* C12 amended: with no menu or an empty menu, menu_guide returns the fixed
\* 'no menu data' response and leaves current_category, cart and notes as
\* they were; the phase is MENU_BROWSING after the call.
C12_EmptyMenuKeepsRest ==
    (Guided /\ call.menu_data = <<>>)
    => /\ ret = NoMenuData
       /\ Session = [pre EXCEPT !.phase = "MENU_BROWSING"]

\* menu_guide has returned 'no menu data' for a session that had a
\* category and a cart, and the classifier would have named a category
C12_Witness ==
    /\ Guided
    /\ call.menu_data = <<>>
    /\ ~call.raises
    /\ call.result.category_match # ""
    /\ pre.current_category # ""
    /\ pre.food_list # EmptyDict
    /\ pre.phase = "ORDERING"
    /\ ret = NoMenuData

\* C15: clear is unconditional.  A clear leaves the cart {} whatever it
\* held, whatever items the command lists and whether or not the tenant menu
\* is available; phase and current_category are unchanged; the outcome is
\* FULL_CANCELLATION_CONFIRMED in phase ORDER_PLACED and the ordinary
\* cleared message otherwise.
C15_ClearUnconditional ==
    (Called /\ call.result.action = "clear")
    => /\ Cart = EmptyDict
       /\ Session.phase = pre.phase
       /\ Session.current_category = pre.current_category
       /\ ret = IF pre.phase = "ORDER_PLACED"
                THEN FULL_CANCELLATION_CONFIRMED ELSE OrderCleared

\* a clear that lists an item has emptied the cart of a session that has a
\* category, with no tenant menu available
C15_Witness ==
    /\ Called
    /\ call.result.action = "clear"
    /\ call.result.items # <<>>
    /\ call.menu_data = <<>>
    /\ pre.food_list # EmptyDict
    /\ pre.current_category # ""
    /\ Cart = EmptyDict
    /\ ret = OrderCleared

\* the outcomes of a command none of whose items names an entry of a
\* non-empty menu
NotFoundOutcomes(items) ==
    { execute_order_management(
          [raises |-> FALSE,
           result |-> [NeutralResult EXCEPT !.action = a, !.items = items,
                                            !.should_update = TRUE]],
          MenuData(MongoTenantContexts, "acme"), c).ret :
      a \in ItemActions, c \in {NewSession, pre} }

\* C13: when the tenant menu is unavailable or empty, an add, remove or
\* modify that lists items returns a configuration-error outcome, which is
\* not the outcome the same command gets when the menu is non-empty and none
\* of its items names a menu entry.
C13_EmptyMenuConfigError ==
    ( /\ Called
      /\ call.result.action \in ItemActions
      /\ call.result.items # <<>>
      /\ call.menu_data = <<>>
      /\ \A i \in 1..Len(call.result.items) :
            KeysByName(MenuData(MongoTenantContexts, "acme"),
                       call.result.items[i].name) = {} )
    => ret \notin NotFoundOutcomes(call.result.items)

\* the outcome names the reference as not in the cart
ReportsNotInCart(r, name) ==
    /\ r.fmt = "Couldn't process removal. {} not in order."
    /\ \E i \in 1..Len(r.args) : r.args[i] = name

\* C14: a remove of an item that names a menu entry which is not in the
\* cart leaves every cart entry that no other item of the command names
\* with its quantity, creates no entry, and reports the item as not in the
\* cart, also when other items of the same command were removed.  (Stated
\* for phases other than ORDER_PLACED, where the outcome is a message.)
C14_RemoveAbsentReported ==
    ( /\ Called
      /\ call.result.action = "remove"
      /\ pre.phase # "ORDER_PLACED" )
    => \A i \in 1..Len(call.result.items) :
          LET K == KeysByName(call.menu_data, call.result.items[i].name)
          IN (K # {} /\ K \cap DOMAIN pre.food_list = {})
             => /\ K \cap DOMAIN Cart = {}
                /\ \A k \in DOMAIN pre.food_list :
                      ItemsFor(k) = {} => Qty(Cart, k) = Qty(pre.food_list, k)
                /\ ReportsNotInCart(ret, call.result.items[i].name)

\* C16: session lifecycle.  A call for an identifier that is not in the
\* store works on a record with phase IDLE, empty current_category, empty
\* cart and empty notes; a call for an identifier that is in the store works
\* on the record the store holds, with its accumulated state; no call
\* removes an identifier from the store.
C16_SessionLifecycle ==
    [][ /\ DOMAIN SESSIONS \subseteq DOMAIN SESSIONS'
        /\ call'.session_id \in DOMAIN SESSIONS'
        /\ pre' = IF call'.session_id \in DOMAIN SESSIONS
                  THEN SESSIONS[call'.session_id]
                  ELSE [phase |-> "IDLE", current_category |-> "",
                        food_list |-> EmptyDict,
                        food_customization_details |-> <<>>] ]_vars

\* a call has worked on the accumulated record of a session, in a store
\* that holds two sessions
C16_Witness ==
    /\ Called
    /\ DOMAIN SESSIONS = SessionsIds
    /\ pre.phase = "ORDERING"
    /\ pre.food_list # EmptyDict
    /\ pre.current_category # ""
    /\ Cart # pre.food_list

\* C17: session isolation.  A menu_guide or order_management call for a
\* session identifier leaves the record of every other identifier in the
\* store (phase, current_category, cart, notes) as it was.
C17_SessionIsolation ==
    [][ \A b \in DOMAIN SESSIONS :
           b # call'.session_id => /\ b \in DOMAIN SESSIONS'
                                   /\ SESSIONS'[b] = SESSIONS[b] ]_vars

\* a call has changed the cart of one session while the other session
\* holds a cart and a category of its own
C17_Witness ==
    /\ Called
    /\ call.session_id = "default"
    /\ "s2" \in DOMAIN SESSIONS
    /\ SESSIONS["s2"].food_list # EmptyDict
    /\ SESSIONS["s2"].current_category # ""
    /\ Cart # pre.food_list
    /\ SESSIONS["s2"] # SESSIONS["default"]

\* the notes of the session of the last call, after the call
Notes == SESSIONS[call.session_id].food_customization_details

\* C18: when the classifier fails, order_management returns the string of
\* a command that asks for nothing (action none, no items), and the
\* session's cart and customization notes are what they were before the
\* call.
C18_ClassifierFailureNeutral ==
    (Called /\ call.raises)
    => /\ ret = Msg("Sorry, I couldn't process that order request.", <<>>)
       /\ trace.actually_added = <<>>
       /\ trace.actually_removed = <<>>
       /\ trace.actually_modified = <<>>
       /\ trace.not_found_items = <<>>
       /\ Cart = pre.food_list
       /\ Notes = pre.food_customization_details

\* the classifier has failed in a call for a session with a cart and notes
C18_Witness ==
    /\ Called
    /\ call.raises
    /\ pre.food_list # EmptyDict
    /\ pre.food_customization_details # <<>>
    /\ Cart = pre.food_list
    /\ ret.fmt = "Sorry, I couldn't process that order request."

IsPrefix(s, t) == Len(s) <= Len(t) /\ SubSeq(t, 1, Len(s)) = s

Blanks(n) == [i \in 1..n |-> " "]

\* p is t without the blanks around it
IsPhraseOf(p, t) ==
    /\ p # <<>> => (p[1] # " " /\ p[Len(p)] # " ")
    /\ \E i \in 0..Len(t), j \in 0..Len(t) : t = Blanks(i) \o p \o Blanks(j)

\* C19: customization notes are append-only.  After an order_management
\* call the session's previous notes are a prefix of its notes; a captured
\* phrase is appended after "; " when the notes were non-empty, and becomes
\* the notes when they were empty; a call that captures none leaves them.
C19_NotesAppendOnly ==
    Called
    => /\ IsPrefix(pre.food_customization_details, Notes)
       /\ IF call.result.has_customization
          THEN \E p \in {SubSeq(Notes, i, Len(Notes)) : i \in 1..(Len(Notes) + 1)} :
                  /\ IsPhraseOf(p, call.result.customization_text)
                  /\ Notes = IF pre.food_customization_details # <<>>
                             THEN pre.food_customization_details
                                      \o <<";", " ">> \o p
                             ELSE p
          ELSE Notes = pre.food_customization_details

\* a phrase between blanks has been appended to notes that were not empty
C19_Witness ==
    /\ Called
    /\ call.result.has_customization
    /\ call.result.customization_text = <<" ","n","o"," ">>
    /\ pre.food_customization_details = <<"h","o","t">>
    /\ Notes = <<"h","o","t",";"," ","n","o">>

\* the cart after the two requests are executed one after the other, r1
\* first, on the session as it was when they arrived
SerialCart(config, r1, r2) ==
    LET c1 == execute_order_management([raises |-> FALSE, result |-> r1],
                                       ConcMenuData, config).config
    IN execute_order_management([raises |-> FALSE, result |-> r2],
                                ConcMenuData, c1).config.food_list

\* C20: two order_management requests for the same session whose
\* statements interleave lose no cart update: when both have returned, the
\* cart is the cart of executing them one after the other in some order.
C20_NoLostUpdate ==
    ( /\ conc.threads # <<>>
      /\ \A t \in ConcThreads : conc.threads[t].pc = "done" )
    => SESSIONS[ConcSessionId].food_list \in
          { SerialCart(pre, conc.threads[1].result, conc.threads[2].result),
            SerialCart(pre, conc.threads[2].result, conc.threads[1].result) }

\* C22: phase advances to ORDERING only through a successful change.  An
\* order_management call in which no item is added, removed or modified
\* (action none, or every item unresolved or absent from the cart) leaves
\* the session's phase as it was before the call.
C22_PhaseOnlyOnChange ==
    ( /\ Called
      /\ trace.actually_added = <<>>
      /\ trace.actually_removed = <<>>
      /\ trace.actually_modified = <<>> )
    => Phase = pre.phase

\* C23: from an empty store, with only menu_guide and order_management,
\* no session is ever in phase ORDER_PLACED (every phase is IDLE,
\* MENU_BROWSING or ORDERING), and no call returns
\* FULL_CANCELLATION_CONFIRMED.
C23_NeverPlaced ==
    /\ \A s \in DOMAIN SESSIONS :
          SESSIONS[s].phase \in {"IDLE", "MENU_BROWSING", "ORDERING"}
    /\ ret # FULL_CANCELLATION_CONFIRMED

\* a remove has emptied the cart of a session that was in phase ORDERING,
\* and returned the ordinary removal message
C23_Witness ==
    /\ Called
    /\ call.result.action = "remove"
    /\ pre.phase = "ORDERING"
    /\ pre.food_list # EmptyDict
    /\ Cart = EmptyDict
    /\ ret.fmt = "Removed {} from your order!"

\* C24: menu_guide never changes a session's cart or customization notes,
\* whatever its outcome (empty menu, category match, no category match,
\* recommendation, classifier failure): only phase and current_category can
\* differ after the call.
C24_GuideKeepsCartAndNotes ==
    Guided
    => /\ Session.food_list = pre.food_list
       /\ Session.food_customization_details = pre.food_customization_details
       /\ Session = [pre EXCEPT !.phase = Session.phase,
                                !.current_category = Session.current_category]

\* menu_guide has matched an item and changed the category of a session
\* that holds a cart and notes
C24_Witness ==
    /\ Guided
    /\ ~call.raises
    /\ call.result.items # <<>>
    /\ call.menu_data # <<>>
    /\ pre.food_list # EmptyDict
    /\ pre.food_customization_details # <<>>
    /\ Session.current_category # pre.current_category
    /\ Session.phase # pre.phase
    /\ Session.food_list = pre.food_list

\* C21: the tenant context cache is populated at most once.  Over any
\* interleaving of fetch_all_tenant_contexts calls, with concurrent first
\* reads and reads after a failed fetch, the store is loaded into the cache
\* at most one time, and a call made with the cache populated returns the
\* cached value.
C21_CachePopulatedOnce ==
    /\ conc.loads <= 1
    /\ \A t \in FetchThreads :
          (conc.threads[t].pc = "idle" /\ conc.threads[t].returned
              /\ conc.threads[t].ret # EmptyDict)
          => /\ ~TENANT_CONTEXTS_CACHE.is_none
             /\ conc.threads[t].ret = TENANT_CONTEXTS_CACHE.value

====
